---- MODULE Spec2Model ----
(***************************************************************************)
(* A model of delivery_optimization.py: the loading of trucks with items   *)
(* as an integer program (delivery_optimization) and the ranking of items  *)
(* by utility / weight (show_items_efficiency).                            *)
(*                                                                         *)
(* Strings are sequences of one-character strings, so that the names the   *)
(* solver library gives its variables, the prefixes the code strips from   *)
(* them and the replacements it makes are computed character by character. *)
(* Weights are whole grams.                                                *)
(***************************************************************************)
EXTENDS Integers, Sequences, FiniteSets, TLC

VARIABLES
    pc,                       \* the position in delivery_optimization
    trucks_max_loadings,      \* parameter: list of max loadings
    drivers_weights,          \* parameter: list of driver weights
    trucks_measuring_unit,    \* parameter: "kg" or "gram"
    drivers_measuring_unit,   \* parameter: "kg" or "gram"
    items_csv_file,           \* the rows of the csv file
    csv_read,                 \* whether pd.read_csv has been called
    exit_code,                \* 0, or the argument of exit()
    drivers_weights_gram,
    trucks_possible_loads,
    df_items,
    lp_trucks_items,          \* per truck: item name -> LpVariable
    prob,                     \* the LpProblem: objective and constraints
    status,                   \* pl.LpStatus[prob.status]
    varValue,                 \* LpVariable id -> value after the solve
    result_trucks_items,      \* per truck: stripped variable name -> value
    printed_counts,           \* per truck: the printed (item name, count) lines
    total_truck_weights,      \* per truck: the printed total weight
    result_utility,           \* pl.value(prob.objective)
    items_efficiency_ordered  \* the result of show_items_efficiency

vars == <<pc, trucks_max_loadings, drivers_weights, trucks_measuring_unit,
          drivers_measuring_unit, items_csv_file, csv_read, exit_code,
          drivers_weights_gram, trucks_possible_loads, df_items,
          lp_trucks_items, prob, status, varValue, result_trucks_items,
          printed_counts, total_truck_weights, result_utility,
          items_efficiency_ordered>>

(***************************************************************************)
(* Bounds of the model.                                                    *)
(***************************************************************************)
MaxTrucks == 2
MaxCount == 3

(***************************************************************************)
(* Strings.                                                                *)
(***************************************************************************)
Digits == <<"0", "1", "2", "3", "4", "5", "6", "7", "8", "9">>

RECURSIVE Str(_)
\* str(n) of a non-negative integer: its decimal digits
Str(n) == IF n < 10 THEN <<Digits[n + 1]>>
          ELSE Str(n \div 10) \o <<Digits[(n % 10) + 1]>>

\* str.replace(old, new) for one-character old and new
Replace(s, old, new) == [k \in 1..Len(s) |-> IF s[k] = old THEN new ELSE s[k]]

\* str.startswith
StartsWith(s, p) == Len(s) >= Len(p) /\ SubSeq(s, 1, Len(p)) = p

\* The characters pulp's LpVariable replaces by "_" in a variable's name
IllegalChars == {"-", "+", "[", "]", " ", ">", "/"}

\* LpVariable.__init__: the name with every illegal character replaced by "_"
Sanitize(s) == [k \in 1..Len(s) |-> IF s[k] \in IllegalChars THEN "_" ELSE s[k]]

\* "Truck {}".format(truck_number), the name given to LpVariable.dicts
TruckLabel(t) == <<"T", "r", "u", "c", "k", " ">> \o Str(t)

\* The name of the LpVariable that LpVariable.dicts makes for one item:
\* the label, "_" and the item's name, sanitized
VarName(t, item) == Sanitize(TruckLabel(t) \o <<"_">> \o item)

\* "Truck_{}_".format(truck_number)
Prefix(t) == <<"T", "r", "u", "c", "k", "_">> \o Str(t) \o <<"_">>

\* The code point of a character, for the comparison of names
Ord(c) == CASE c = " " -> 32 [] c = "-" -> 45
            [] c = "0" -> 48 [] c = "1" -> 49 [] c = "2" -> 50 [] c = "3" -> 51
            [] c = "4" -> 52 [] c = "5" -> 53 [] c = "6" -> 54 [] c = "7" -> 55
            [] c = "8" -> 56 [] c = "9" -> 57
            [] c = "T" -> 84 [] c = "_" -> 95 [] c = "a" -> 97 [] c = "b" -> 98
            [] c = "c" -> 99 [] c = "k" -> 107 [] c = "o" -> 111
            [] c = "r" -> 114 [] c = "u" -> 117 [] c = "x" -> 120
            [] OTHER -> 0

RECURSIVE StrLess(_, _)
\* s < t for Python strings
StrLess(s, t) ==
    IF t = <<>> THEN FALSE
    ELSE IF s = <<>> THEN TRUE
    ELSE IF Ord(Head(s)) # Ord(Head(t)) THEN Ord(Head(s)) < Ord(Head(t))
    ELSE StrLess(Tail(s), Tail(t))

(***************************************************************************)
(* The inputs.                                                             *)
(***************************************************************************)
Units == {"kg", "gram"}

\* Max loadings of a truck, in the unit given
TruckLoads(unit) == IF unit = "kg" THEN {12} ELSE {12000}

\* Weights of a driver, in the unit given
DriverWeights(unit) == IF unit = "kg" THEN {0, 7, 13} ELSE {0, 7000, 13000}

\* The items a csv file may name, with weight (gram) and utility
Catalogue ==
    { [name |-> <<"a", " ", "b">>, weight |-> 5000, utility |-> 3],
      [name |-> <<"a", "_", "b">>, weight |-> 6000, utility |-> 3],
      [name |-> <<"a", "-", "b">>, weight |-> 5000, utility |-> 1],
      [name |-> <<"b", "o", "x">>, weight |-> 10000, utility |-> 6] }

ItemRows ==
    { [name |-> c.name, max_count |-> m, weight |-> c.weight, utility |-> c.utility] :
        c \in Catalogue, m \in {1, MaxCount} }

\* Lists of 1..n rows with pairwise different names
ItemLists(n) ==
    UNION { { s \in [1..k -> ItemRows] :
                \A i, j \in 1..k : i # j => s[i].name # s[j].name } : k \in 1..n }

SeqsUpTo(S, lo, hi) == UNION { [1..k -> S] : k \in lo..hi }

NoProblem == [objective |-> <<>>, constraints |-> <<>>]

Init ==
    /\ pc = "start"
    /\ trucks_measuring_unit \in Units
    /\ drivers_measuring_unit \in Units
    /\ trucks_max_loadings \in SeqsUpTo(TruckLoads(trucks_measuring_unit), 0, MaxTrucks)
    /\ drivers_weights \in SeqsUpTo(DriverWeights(drivers_measuring_unit), 0, MaxTrucks)
    /\ Len(trucks_max_loadings) + Len(drivers_weights) > 0
    /\ items_csv_file \in ItemLists(2)
    /\ csv_read = FALSE
    /\ exit_code = 0
    /\ drivers_weights_gram = <<>>
    /\ trucks_possible_loads = <<>>
    /\ df_items = <<>>
    /\ lp_trucks_items = <<>>
    /\ prob = NoProblem
    /\ status = "Not Solved"
    /\ varValue = <<>>
    /\ result_trucks_items = <<>>
    /\ printed_counts = <<>>
    /\ total_truck_weights = <<>>
    /\ result_utility = 0
    /\ items_efficiency_ordered = <<>>

(***************************************************************************)
(* delivery_optimization: the parameters' check and the possible loads.    *)
(***************************************************************************)
Min(a, b) == IF a <= b THEN a ELSE b

\* The conversion of a list to gram: times 1000 when its unit is 'kg'
ToGram(values, unit) ==
    IF unit = "kg" THEN [k \in 1..Len(values) |-> values[k] * 1000] ELSE values

\* PossibleLoads with the driver's weight left on the load
MutPossibleLoads(max_loads, driver_weights) ==
    [k \in 1..Min(Len(max_loads), Len(driver_weights)) |-> max_loads[k]]

\* zip(trucks_max_loadings_gram, drivers_weights_gram), each max_load - driver_weight
PossibleLoads(max_loads, driver_weights) ==
    [k \in 1..Min(Len(max_loads), Len(driver_weights)) |->
        max_loads[k] - driver_weights[k]]

\* CheckCounts without the comparison of the lengths
MutCheckCounts ==
    /\ pc = "start"
    /\ exit_code' = exit_code
    /\ pc' = "loads"
    /\ UNCHANGED <<trucks_max_loadings, drivers_weights, trucks_measuring_unit,
                   drivers_measuring_unit, items_csv_file, csv_read,
                   drivers_weights_gram, trucks_possible_loads, df_items,
                   lp_trucks_items, prob, status, varValue, result_trucks_items,
                   printed_counts, total_truck_weights, result_utility,
                   items_efficiency_ordered>>

\* The check of the two lists' lengths: a message and exit(1) when they differ
CheckCounts ==
    /\ pc = "start"
    /\ IF Len(trucks_max_loadings) # Len(drivers_weights)
       THEN /\ exit_code' = 1
            /\ pc' = "exit"
       ELSE /\ exit_code' = exit_code
            /\ pc' = "loads"
    /\ UNCHANGED <<trucks_max_loadings, drivers_weights, trucks_measuring_unit,
                   drivers_measuring_unit, items_csv_file, csv_read,
                   drivers_weights_gram, trucks_possible_loads, df_items,
                   lp_trucks_items, prob, status, varValue, result_trucks_items,
                   printed_counts, total_truck_weights, result_utility,
                   items_efficiency_ordered>>

\* The conversion to gram and the subtraction of the drivers' weights
ComputeLoads ==
    /\ pc = "loads"
    /\ drivers_weights_gram' = ToGram(drivers_weights, drivers_measuring_unit)
    /\ trucks_possible_loads' =
           PossibleLoads(ToGram(trucks_max_loadings, trucks_measuring_unit),
                         ToGram(drivers_weights, drivers_measuring_unit))
    /\ pc' = "read"
    /\ UNCHANGED <<trucks_max_loadings, drivers_weights, trucks_measuring_unit,
                   drivers_measuring_unit, items_csv_file, csv_read, exit_code,
                   df_items, lp_trucks_items, prob, status, varValue,
                   result_trucks_items, printed_counts, total_truck_weights,
                   result_utility, items_efficiency_ordered>>

\* pd.read_csv of the items' file
ReadItems ==
    /\ pc = "read"
    /\ df_items' = items_csv_file
    /\ csv_read' = TRUE
    /\ pc' = "build"
    /\ UNCHANGED <<trucks_max_loadings, drivers_weights, trucks_measuring_unit,
                   drivers_measuring_unit, items_csv_file, exit_code,
                   drivers_weights_gram, trucks_possible_loads, lp_trucks_items,
                   prob, status, varValue, result_trucks_items, printed_counts,
                   total_truck_weights, result_utility, items_efficiency_ordered>>

(***************************************************************************)
(* delivery_optimization: the LpProblem.  An LpVariable is identified by   *)
(* <<truck_number, item name>>, the place it has in lp_trucks_items; its   *)
(* name is VarName of the two.  A linear expression is a sequence of terms *)
(* [coef, var], a constraint is [terms, bound], read terms <= bound.       *)
(***************************************************************************)
ItemsNames(items) == {items[r].name : r \in 1..Len(items)}

\* LpVariable.dicts("Truck {}".format(truck_number), items_names, ...)
LpVariableDicts(truck_number, items_names) ==
    [n \in items_names |-> <<truck_number, n>>]

\* Objective with the items' weight in the place of their utility
MutObjective(items, lp) ==
    [k \in 1..(Len(items) * Len(lp)) |->
        LET r == ((k - 1) \div Len(lp)) + 1
            t == ((k - 1) % Len(lp)) + 1
        IN  [coef |-> items[r].weight, var |-> lp[t][items[r].name]]]

\* lpSum of utility * variable, for each item, for each truck
Objective(items, lp) ==
    [k \in 1..(Len(items) * Len(lp)) |->
        LET r == ((k - 1) \div Len(lp)) + 1
            t == ((k - 1) % Len(lp)) + 1
        IN  [coef |-> items[r].utility, var |-> lp[t][items[r].name]]]

\* lpSum of weight * variable over the items <= the truck's possible load
CapacityConstraint(lp_truck_items, items, truck_possible_load) ==
    [terms |-> [r \in 1..Len(items) |->
                   [coef |-> items[r].weight, var |-> lp_truck_items[items[r].name]]],
     bound |-> truck_possible_load]

\* SupplyConstraint on the first truck's variable alone
MutSupplyConstraint(item, lp) ==
    [terms |-> <<[coef |-> 1, var |-> lp[1][item.name]]>>,
     bound |-> item.max_count]

\* sum of the item's variable over the trucks <= the item's max_count
SupplyConstraint(item, lp) ==
    [terms |-> [t \in 1..Len(lp) |-> [coef |-> 1, var |-> lp[t][item.name]]],
     bound |-> item.max_count]

\* The variables, the objective, one constraint per truck and one per item
BuildProblem ==
    /\ pc = "build"
    /\ LET lp == [t \in 1..Len(trucks_possible_loads) |->
                     LpVariableDicts(t - 1, ItemsNames(df_items))]
       IN  /\ lp_trucks_items' = lp
           /\ prob' =
                [objective |-> Objective(df_items, lp),
                 constraints |->
                    [t \in 1..Len(trucks_possible_loads) |->
                        CapacityConstraint(lp[t], df_items, trucks_possible_loads[t])]
                    \o [r \in 1..Len(df_items) |-> SupplyConstraint(df_items[r], lp)]]
    /\ pc' = "solve"
    /\ UNCHANGED <<trucks_max_loadings, drivers_weights, trucks_measuring_unit,
                   drivers_measuring_unit, items_csv_file, csv_read, exit_code,
                   drivers_weights_gram, trucks_possible_loads, df_items, status,
                   varValue, result_trucks_items, printed_counts,
                   total_truck_weights, result_utility, items_efficiency_ordered>>

(***************************************************************************)
(* delivery_optimization: prob.solve.  The solver is the library's; the    *)
(* model gives it its contract: "Optimal" with any assignment of integers  *)
(* >= 0 that satisfies every constraint of prob and maximizes prob's       *)
(* objective, "Infeasible" when no assignment satisfies the constraints,   *)
(* "Unbounded" when the objective has no maximum.  Every coefficient the   *)
(* program puts in a constraint is >= 0, so a constraint bounds each of    *)
(* its variables by bound \div coef, which keeps the search finite.        *)
(***************************************************************************)
RECURSIVE Eval(_, _)
\* The value of a linear expression under an assignment
Eval(terms, x) ==
    IF terms = <<>> THEN 0
    ELSE Head(terms).coef * x[Head(terms).var] + Eval(Tail(terms), x)

TermVars(terms) == {terms[k].var : k \in 1..Len(terms)}

\* The variables of the problem: those of its objective and constraints
ProbVars(p) ==
    TermVars(p.objective)
        \cup UNION {TermVars(p.constraints[c].terms) : c \in 1..Len(p.constraints)}

MaxOf(S) == CHOOSE m \in S : \A n \in S : n <= m

MinOf(S) == CHOOSE m \in S : \A n \in S : m <= n

\* The bounds the constraints put on variable v
UpperBounds(p, v) ==
    UNION { { p.constraints[c].bound \div p.constraints[c].terms[k].coef :
                k \in { j \in 1..Len(p.constraints[c].terms) :
                          /\ p.constraints[c].terms[j].var = v
                          /\ p.constraints[c].terms[j].coef > 0 } } :
            c \in 1..Len(p.constraints) }

Satisfies(p, x) ==
    \A c \in 1..Len(p.constraints) :
        Eval(p.constraints[c].terms, x) <= p.constraints[c].bound

RECURSIVE Box(_, _)
\* The assignments of the variables V with 0 <= x[v] <= ub[v]
Box(V, ub) ==
    IF V = {} THEN { <<>> }
    ELSE LET v == CHOOSE w \in V : TRUE
         IN  { x @@ (v :> n) : x \in Box(V \ {v}, ub), n \in 0..ub[v] }

\* The assignments that satisfy every constraint
Feasible(p) ==
    LET V == ProbVars(p)
        ub == [v \in V |-> IF UpperBounds(p, v) = {} THEN 0 ELSE MinOf(UpperBounds(p, v))]
    IN  { x \in Box(V, ub) : Satisfies(p, x) }

\* A variable no constraint bounds, which the objective rewards
Unbounded(p) ==
    \E k \in 1..Len(p.objective) :
        /\ p.objective[k].coef > 0
        /\ UpperBounds(p, p.objective[k].var) = {}

\* The assignments of F that maximize the objective
Optimal(p, F) ==
    LET best == MaxOf({Eval(p.objective, x) : x \in F})
    IN  { x \in F : Eval(p.objective, x) = best }

\* What the variables hold after a solve that found no optimum is not
\* specified: every variable at its lower bound 0, or every variable at 1
Unspecified(p) == { [v \in ProbVars(p) |-> n] : n \in 0..1 }

\* The ends of a solve: a status and the variables' values
SolveOutcomes(p) ==
    LET F == Feasible(p)
    IN  IF F = {}
        THEN { [status |-> "Infeasible", values |-> x] : x \in Unspecified(p) }
        ELSE IF Unbounded(p)
        THEN { [status |-> "Unbounded", values |-> x] : x \in Unspecified(p) }
        ELSE { [status |-> "Optimal", values |-> x] : x \in Optimal(p, F) }

\* prob.solve(...) and the print of the status
Solve ==
    /\ pc = "solve"
    /\ \E outcome \in SolveOutcomes(prob) :
          /\ status' = outcome.status
          /\ varValue' = outcome.values
    /\ pc' = "decode"
    /\ UNCHANGED <<trucks_max_loadings, drivers_weights, trucks_measuring_unit,
                   drivers_measuring_unit, items_csv_file, csv_read, exit_code,
                   drivers_weights_gram, trucks_possible_loads, df_items,
                   lp_trucks_items, prob, result_trucks_items, printed_counts,
                   total_truck_weights, result_utility, items_efficiency_ordered>>

(***************************************************************************)
(* delivery_optimization: the results.                                     *)
(***************************************************************************)
RECURSIVE Flatten(_)
\* The variables of a list of expressions, in the order they occur
Flatten(exprs) ==
    IF exprs = <<>> THEN <<>>
    ELSE [k \in 1..Len(Head(exprs)) |-> Head(exprs)[k].var] \o Flatten(Tail(exprs))

RECURSIVE Dedup(_)
\* A list without the later occurrences of its elements
Dedup(s) ==
    IF s = <<>> THEN <<>>
    ELSE LET init == Dedup(SubSeq(s, 1, Len(s) - 1))
             last == s[Len(s)]
         IN  IF \E k \in 1..Len(init) : init[k] = last THEN init
             ELSE Append(init, last)

RECURSIVE SortByName(_)
\* list.sort(key=lambda v: v.name): stable, ascending
SortByName(s) ==
    IF s = <<>> THEN <<>>
    ELSE LET init == SortByName(SubSeq(s, 1, Len(s) - 1))
             last == s[Len(s)]
             \* last goes behind every element whose name is not greater
             n == Cardinality({k \in 1..Len(init) :
                                  ~StrLess(VarName(last[1], last[2]),
                                           VarName(init[k][1], init[k][2]))})
         IN  SubSeq(init, 1, n) \o <<last>> \o SubSeq(init, n + 1, Len(init))

\* prob.variables(): the variables of the objective and of the constraints,
\* each once, sorted by name
ResultVariables(p) ==
    SortByName(Dedup(Flatten(<<p.objective>>
                             \o [c \in 1..Len(p.constraints) |-> p.constraints[c].terms])))

\* The dict {var.name[prefix_len:] : var.varValue for var in result_variables
\*           if var.name.startswith("Truck_{}_".format(truck_number))}:
\* of two variables that give the same key, the later one's value stays
TruckItems(truck_number, result_variables, values) ==
    LET prefix == Prefix(truck_number)
        name(k) == VarName(result_variables[k][1], result_variables[k][2])
        key(k) == SubSeq(name(k), Len(prefix) + 1, Len(name(k)))
        own == {k \in 1..Len(result_variables) : StartsWith(name(k), prefix)}
    IN  [n \in {key(k) : k \in own} |->
            values[result_variables[MaxOf({k \in own : key(k) = n})]]]

\* The result list for the trucks
Decode ==
    /\ pc = "decode"
    /\ result_trucks_items' =
           [t \in 1..Len(trucks_possible_loads) |->
               TruckItems(t - 1, ResultVariables(prob), varValue)]
    /\ pc' = "report"
    /\ UNCHANGED <<trucks_max_loadings, drivers_weights, trucks_measuring_unit,
                   drivers_measuring_unit, items_csv_file, csv_read, exit_code,
                   drivers_weights_gram, trucks_possible_loads, df_items,
                   lp_trucks_items, prob, status, varValue, printed_counts,
                   total_truck_weights, result_utility, items_efficiency_ordered>>

\* The lines printed for a truck: the items whose count is greater than 0,
\* named with every underscore replaced by a space
PrintedCounts(result_truck_items) ==
    { <<Replace(n, "_", " "), result_truck_items[n]>> :
        n \in {m \in DOMAIN result_truck_items : result_truck_items[m] > 0} }

RECURSIVE TotalTruckWeight(_, _)
\* sum of item_count * item['weight'] over the entries of the truck's dict and
\* the items with item['name'].replace(' ', '_') == item_name.  An item
\* matches at most one entry, so the sum runs over the items.
TotalTruckWeight(result_truck_items, items) ==
    IF items = <<>> THEN 0
    ELSE LET item == Head(items)
             item_name == Replace(item.name, " ", "_")
         IN  (IF item_name \in DOMAIN result_truck_items
              THEN result_truck_items[item_name] * item.weight
              ELSE 0)
             + TotalTruckWeight(result_truck_items, Tail(items))

\* The prints of the counts, of the total weights and of the total utility
Report ==
    /\ pc = "report"
    /\ printed_counts' =
           [t \in 1..Len(result_trucks_items) |-> PrintedCounts(result_trucks_items[t])]
    /\ total_truck_weights' =
           [t \in 1..Len(result_trucks_items) |->
               TotalTruckWeight(result_trucks_items[t], df_items)]
    /\ result_utility' = Eval(prob.objective, varValue)
    /\ pc' = "done"
    /\ UNCHANGED <<trucks_max_loadings, drivers_weights, trucks_measuring_unit,
                   drivers_measuring_unit, items_csv_file, csv_read, exit_code,
                   drivers_weights_gram, trucks_possible_loads, df_items,
                   lp_trucks_items, prob, status, varValue, result_trucks_items,
                   items_efficiency_ordered>>

Next ==
    \/ CheckCounts
    \/ ComputeLoads
    \/ ReadItems
    \/ BuildProblem
    \/ Solve
    \/ Decode
    \/ Report

Spec == Init /\ [][Next]_vars

(***************************************************************************)
(* show_items_efficiency.  An efficiency utility / weight is kept as the   *)
(* fraction [num, den] with den > 0 and compared as a fraction; the result *)
(* dict is the list of its entries in the dict's order.                    *)
(***************************************************************************)
EffLess(e, f) == e.num * f.den < f.num * e.den

\* {item['name']: item['utility'] / item['weight'] for each row}.items()
ItemsEfficiency(items) ==
    [r \in 1..Len(items) |->
        [name |-> items[r].name,
         efficiency |-> [num |-> items[r].utility, den |-> items[r].weight]]]

RECURSIVE MutSortedReverse(_)
\* SortedReverse as an ascending sort read backwards: equal keys change order
MutSortedReverse(s) ==
    IF s = <<>> THEN <<>>
    ELSE LET init == MutSortedReverse(SubSeq(s, 1, Len(s) - 1))
             last == s[Len(s)]
             n == Cardinality({k \in 1..Len(init) :
                                  EffLess(last.efficiency, init[k].efficiency)})
         IN  SubSeq(init, 1, n) \o <<last>> \o SubSeq(init, n + 1, Len(init))

RECURSIVE SortedReverse(_)
\* sorted(entries, key=lambda e: e[1], reverse=True): descending, and stable:
\* entries with equal keys keep the order they have in the input
SortedReverse(s) ==
    IF s = <<>> THEN <<>>
    ELSE LET init == SortedReverse(SubSeq(s, 1, Len(s) - 1))
             last == s[Len(s)]
             \* last goes behind every entry whose key is not less than its own
             n == Cardinality({k \in 1..Len(init) :
                                  ~EffLess(init[k].efficiency, last.efficiency)})
         IN  SubSeq(init, 1, n) \o <<last>> \o SubSeq(init, n + 1, Len(init))

\* show_items_efficiency(items_csv_file, ...)
ShowItemsEfficiency ==
    /\ pc = "efficiency"
    /\ df_items' = items_csv_file
    /\ csv_read' = TRUE
    /\ items_efficiency_ordered' = SortedReverse(ItemsEfficiency(items_csv_file))
    /\ pc' = "ranked"
    /\ UNCHANGED <<trucks_max_loadings, drivers_weights, trucks_measuring_unit,
                   drivers_measuring_unit, items_csv_file, exit_code,
                   drivers_weights_gram, trucks_possible_loads, lp_trucks_items,
                   prob, status, varValue, result_trucks_items, printed_counts,
                   total_truck_weights, result_utility>>

\* A call of show_items_efficiency on a file of one to three items
InitEff ==
    /\ pc = "efficiency"
    /\ trucks_measuring_unit = "kg"
    /\ drivers_measuring_unit = "kg"
    /\ trucks_max_loadings = <<>>
    /\ drivers_weights = <<>>
    /\ items_csv_file \in ItemLists(3)
    /\ csv_read = FALSE
    /\ exit_code = 0
    /\ drivers_weights_gram = <<>>
    /\ trucks_possible_loads = <<>>
    /\ df_items = <<>>
    /\ lp_trucks_items = <<>>
    /\ prob = NoProblem
    /\ status = "Not Solved"
    /\ varValue = <<>>
    /\ result_trucks_items = <<>>
    /\ printed_counts = <<>>
    /\ total_truck_weights = <<>>
    /\ result_utility = 0
    /\ items_efficiency_ordered = <<>>

NextEff == ShowItemsEfficiency

SpecEff == InitEff /\ [][NextEff]_vars

(***************************************************************************)
(* The claims.  They speak of the parameters and of the solver's values,   *)
(* with the quantities of the specification computed here on their own.    *)
(***************************************************************************)
RECURSIVE SeqSum(_)
SeqSum(s) == IF s = <<>> THEN 0 ELSE Head(s) + SeqSum(Tail(s))

InGram(value, unit) == IF unit = "kg" THEN value * 1000 ELSE value

\* usable_capacity of truck t (1 = the first): gross capacity - reserved weight
UsableCapacity(t) ==
    InGram(trucks_max_loadings[t], trucks_measuring_unit)
        - InGram(drivers_weights[t], drivers_measuring_unit)

Trucks == 1..Len(trucks_max_loadings)

Rows == 1..Len(df_items)

SameCounts == Len(trucks_max_loadings) = Len(drivers_weights)

\* The count the solver assigned to truck t and the item of row r
Count(t, r) == varValue[lp_trucks_items[t][df_items[r].name]]

\* The weight on truck t under the counts x, a function of <<t, r>>
LoadWeight(x, t) == SeqSum([r \in Rows |-> df_items[r].weight * x[<<t, r>>]])

TotalCount(x, r) == SeqSum([t \in Trucks |-> x[<<t, r>>]])

TotalUtility(x) ==
    SeqSum([t \in Trucks |-> SeqSum([r \in Rows |-> df_items[r].utility * x[<<t, r>>]])])

Counts == [p \in Trucks \X Rows |-> Count(p[1], p[2])]

\* A run that produced an allocation: its solve ended OPTIMAL.  (What a run
\* does after a solve that did not is the matter of NoPlanUnlessOptimal.)
Allocated == pc \in {"decode", "report", "done"} /\ status = "Optimal"

\* C1: in every run that produces an allocation, the weight of the items on
\* each truck is at most the truck's usable capacity, its max loading minus
\* its driver's weight, both in gram.
CapacityInvariant ==
    Allocated => \A t \in Trucks : LoadWeight(Counts, t) <= UsableCapacity(t)

\* A truck is loaded, and one more unit of an item that is still in supply
\* would go over its capacity
CapacityBinds ==
    /\ Allocated
    /\ \E t \in Trucks, r \in Rows :
          /\ LoadWeight(Counts, t) > 0
          /\ TotalCount(Counts, r) < df_items[r].max_count
          /\ LoadWeight(Counts, t) + df_items[r].weight > UsableCapacity(t)

\* C2: in every run that produces an allocation, the units of each item over
\* all trucks are at most the item's max_count.
SupplyInvariant ==
    Allocated => \A r \in Rows : TotalCount(Counts, r) <= df_items[r].max_count

\* Two trucks carry an item up to its max_count, and one of them has room
\* for one more unit
SupplyBinds ==
    /\ Allocated
    /\ \E r \in Rows, t \in Trucks :
          /\ Len(trucks_max_loadings) = 2
          /\ TotalCount(Counts, r) = df_items[r].max_count
          /\ LoadWeight(Counts, t) + df_items[r].weight <= UsableCapacity(t)

\* The counts that fit: every assignment of counts >= 0 that keeps every
\* truck's capacity and every item's supply.  A count that fits is at most
\* the item's max_count and at most what the truck holds of the item alone.
Fitting ==
    LET most == [p \in Trucks \X Rows |->
                    Min(df_items[p[2]].max_count,
                        UsableCapacity(p[1]) \div df_items[p[2]].weight)]
    IN  { y \in Box(Trucks \X Rows, most) :
            /\ \A t \in Trucks : LoadWeight(y, t) <= UsableCapacity(t)
            /\ \A r \in Rows : TotalCount(y, r) <= df_items[r].max_count }

\* One item of weight 5000 and utility 3, one truck of usable capacity 12000
Scenario ==
    /\ Len(df_items) = 1
    /\ df_items[1].weight = 5000
    /\ df_items[1].utility = 3
    /\ df_items[1].max_count >= 3
    /\ Len(trucks_max_loadings) = 1
    /\ UsableCapacity(1) = 12000

\* C3: when the solve ends OPTIMAL, no assignment of counts that keeps the
\* capacities and the supplies has a greater total utility than the returned
\* one; in the scenario the count is 2 and the utility 6.
Optimality ==
    Allocated =>
        /\ \A y \in Fitting : TotalUtility(y) <= TotalUtility(Counts)
        /\ pc = "done" => result_utility = TotalUtility(Counts)
        /\ Scenario => Count(1, 1) = 2 /\ TotalUtility(Counts) = 6

\* The scenario's run has ended with count 2 and reported utility 6
ScenarioSolved ==
    Allocated /\ pc = "done" /\ Scenario /\ Count(1, 1) = 2 /\ result_utility = 6

\* C5: when the two lists differ in length, the run stops with the error
\* before the csv file is read, before any variable, objective or constraint
\* exists and before the solve, and no possible load is computed from the
\* shorter list.
MismatchAborts ==
    ~SameCounts =>
        /\ pc \in {"start", "exit"}
        /\ pc = "exit" => exit_code = 1
        /\ ~csv_read
        /\ df_items = <<>>
        /\ trucks_possible_loads = <<>>
        /\ lp_trucks_items = <<>>
        /\ prob = NoProblem
        /\ status = "Not Solved"
        /\ result_trucks_items = <<>>

\* The run has stopped on two lists of which neither is empty
MismatchAborted ==
    /\ pc = "exit"
    /\ exit_code = 1
    /\ Len(trucks_max_loadings) > 0
    /\ Len(drivers_weights) > Len(trucks_max_loadings)

\* The identifier of the solver variable of truck t (1 = the first) and row r
Identifier(t, r) == VarName(t - 1, df_items[r].name)

\* The rows the code takes for an entry of a truck's dict: those whose name,
\* with every space replaced by an underscore, is the entry's key
RowsOfKey(key) == {r \in Rows : Replace(df_items[r].name, " ", "_") = key}

Decoded == pc \in {"report", "done"}

\* C4: no two distinct (truck, item) pairs share an identifier, and every
\* pair has its own entry in the decoded mapping of its truck, which holds
\* the pair's count.
IdentifierRoundTrip ==
    Decoded =>
        /\ \A p, q \in Trucks \X Rows :
              p # q => Identifier(p[1], p[2]) # Identifier(q[1], q[2])
        /\ \A t \in Trucks :
              /\ Cardinality(DOMAIN result_trucks_items[t]) = Len(df_items)
              /\ \A r \in Rows :
                    LET key == SubSeq(Identifier(t, r), Len(Prefix(t - 1)) + 1,
                                      Len(Identifier(t, r)))
                    IN  /\ key \in DOMAIN result_trucks_items[t]
                        /\ result_trucks_items[t][key] = Count(t, r)

\* C6: when a driver's weight exceeds a truck's max loading, the run raises
\* an error before it builds or solves the problem and produces no allocation.
NegativeCapacityRejected ==
    (SameCounts /\ \E t \in Trucks : UsableCapacity(t) < 0) =>
        /\ lp_trucks_items = <<>>
        /\ prob = NoProblem
        /\ status = "Not Solved"
        /\ result_trucks_items = <<>>

\* C7: when the status after the solve is not OPTIMAL, no counts are decoded
\* or reported: every truck's mapping is empty and no count is printed.
NoPlanUnlessOptimal ==
    (pc \in {"decode", "report", "done"} /\ status # "Optimal") =>
        /\ \A t \in 1..Len(result_trucks_items) : DOMAIN result_trucks_items[t] = {}
        /\ \A t \in 1..Len(printed_counts) : printed_counts[t] = {}
        /\ \A t \in 1..Len(total_truck_weights) : total_truck_weights[t] = 0

\* C8: a run that ends without an error has met no solver variable whose
\* stripped name is not the name of exactly one item: every entry of every
\* truck's mapping is taken for exactly one row when the weights are summed.
NoSilentDrop ==
    (pc = "done" /\ exit_code = 0) =>
        \A t \in Trucks : \A key \in DOMAIN result_trucks_items[t] :
            Cardinality(RowsOfKey(key)) = 1

\* C10: the total weight reported for a truck is the sum over the items of
\* the item's weight times the count the solver assigned to truck and item.
ReportedWeightExact ==
    pc = "done" =>
        \A t \in Trucks : total_truck_weights[t] = LoadWeight(Counts, t)

(***************************************************************************)
(* The claim on show_items_efficiency.                                     *)
(***************************************************************************)
Ranked == pc = "ranked"

EffEqual(e, f) == e.num * f.den = f.num * e.den

\* The place of the item named n in the input
RowOf(n) == CHOOSE r \in 1..Len(items_csv_file) : items_csv_file[r].name = n

\* C9: the result holds every input item exactly once, with its utility /
\* weight, in descending order of it, and two items of equal ratio in the
\* order they have in the input.
EfficiencyOrdered ==
    Ranked =>
        LET out == items_efficiency_ordered
        IN  /\ Len(out) = Len(items_csv_file)
            /\ \A r \in 1..Len(items_csv_file) :
                  Cardinality({k \in 1..Len(out) :
                                  /\ out[k].name = items_csv_file[r].name
                                  /\ out[k].efficiency.num * items_csv_file[r].weight
                                        = items_csv_file[r].utility * out[k].efficiency.den})
                      = 1
            /\ \A j, k \in 1..Len(out) :
                  j < k =>
                      /\ ~EffLess(out[j].efficiency, out[k].efficiency)
                      /\ EffEqual(out[j].efficiency, out[k].efficiency)
                            => RowOf(out[j].name) < RowOf(out[k].name)

\* Three items are ranked, two of equal ratio next to each other, and the
\* ranking is not the input's order
RankedWithTie ==
    /\ Ranked
    /\ Len(items_efficiency_ordered) = 3
    /\ \E k \in 1..2 : EffEqual(items_efficiency_ordered[k].efficiency,
                                items_efficiency_ordered[k + 1].efficiency)
    /\ \E k \in 1..3 : items_efficiency_ordered[k].name # items_csv_file[k].name

====
